---- MODULE Spec2Model ----
(***************************************************************************)
(* Model of the command/job execution engine of the Kali MCP server        *)
(* (src/src/kali_server.py, src/src/utils/command.py).                     *)
(*                                                                         *)
(* One asyncio event loop runs every coroutine; a coroutine runs without   *)
(* interruption from one await to the next, so each action below is one    *)
(* such segment.  Timers (the command timeout, the 2 s fast-path window,   *)
(* the 3 s / 5 s kill grace) are events that may fire whenever the wait    *)
(* they bound is pending.  The operating system's processes are the        *)
(* environment: a process may exit, close its pipes or lose its child at   *)
(* any time.                                                               *)
(***************************************************************************)
EXTENDS Integers, Sequences, FiniteSets, TLC

\* ------------------------------------------------------------------ bounds
\* Number of run_kali_command invocations (each background one owns a job).
MaxCalls == 2
\* Number of cancel_job invocations that may be suspended on one job at once.
MaxCancels == 2
\* Number of commands in execution at once: a further run_kali_command arrives
\* when fewer than this many are still executing.
MaxActive == 1

\* Number of successful start_interactsh calls.
MaxStarts == 2
\* Number of lines in an interactsh output file.
MaxLines == 2

Calls == 1..MaxCalls

\* ------------------------------------------------------------ input domains
\* Strings are sequences of characters; a message of the program is one token.
WS == {" ", "\n"}
Commands == {<<>>, <<" ">>, <<"x">>}
Timeouts == {60, 61}
Cwds == {"/tmp", "/nonexistent"}
\* What the reads return: the (stdout, stderr) a process wrote before the pipes
\* closed; and what process.wait() returns: the exit status, or -N for a shell
\* killed by signal N (here -1, SIGHUP).
PipeData == {<<(<<"h">>), (<<>>)>>, <<(<<" ">>), (<<"e", "\n">>)>>}
ExitCodes == {0, 1, -1}

\* The wider input domains of the single-invocation specification: commands
\* around the preview length and timeouts around the advertised maximum.
LongCommand(n) == [i \in 1..n |-> "x"]
WideCommands == {<<>>, <<"x">>, LongCommand(50), LongCommand(51)}
WideTimeouts == {60, 61, 36000, 36001}

\* "Security settings": the maximum the tool schema advertises for timeout.
MAX_TIMEOUT == 36000

\* Python's None and an optional value.
None == <<>>
Some(x) == <<x>>

TIMEOUT_MSG == <<"Command timed out after {timeout} seconds">>
CANCEL_MSG == <<"Command was cancelled">>
BG_ERROR_MSG == <<"Failed to start command: {e}">>
SYNC_ERROR_MSG == <<"Error executing command: {e}">>
EMPTY == <<"(empty)">>

\* ------------------------------------------------------------ pure helpers
\* Mutant of Strip: the emptiness test on the raw string.
StripNothing(s) == s

RECURSIVE LStrip(_)
LStrip(s) == IF s # <<>> /\ Head(s) \in WS THEN LStrip(Tail(s)) ELSE s

RECURSIVE RStrip(_)
RStrip(s) ==
  IF s # <<>> /\ s[Len(s)] \in WS THEN RStrip(SubSeq(s, 1, Len(s) - 1)) ELSE s

\* str.strip()
Strip(s) == RStrip(LStrip(s))

\* The stdout/stderr section of the synchronous route: x if x else "(empty)",
\* x already stripped by run_command.
SyncSection(x) == IF x # <<>> THEN x ELSE EMPTY

\* The section of the background routes: x.strip() if x else "(empty)".
JobSection(x) == IF x # <<>> THEN Strip(x) ELSE EMPTY

\* The formatted block: the two sections and the return code line.
Block(out, err, rc) == [stdout |-> out, stderr |-> err, rc |-> rc]

TERMINAL == {"completed", "cancelled", "timeout", "error"}

\* The job ID of the job created by call c, the draws taken to be distinct
\* (equal draws are the subject of IdSpec below).
generate_job_id(c) == c

\* -------------------------------------------------------------------- state
VARIABLES
  background_jobs,  \* the job store: job id -> job record
  call,             \* call[c]: the run_kali_command invocation c
  ret,              \* ret[c]: what invocation c returned
  unit,             \* unit[c]: position of the coroutine executing c's command,
                    \*   with the timeout (seconds) of the wait it is in, 0 for none
  cancelReq,        \* cancelReq[c]: task.cancel() asked, not yet delivered
  proc,             \* proc[c]: the OS process group spawned for c
  cancels,          \* cancels[j]: cancel_job invocations suspended on job j
  signals,          \* signals[j]: signals cancel_job sent to j's process group
  resp,             \* the response of the last get/list/cancel call
  interactsh_worker,  \* the worker record of utils/interactsh.py, or None
  process_table,      \* the live processes whose command line matches interactsh-client
  files,              \* files[path]: the output file at path, its lines, or Missing
  interactsh_config,  \* the INTERACTSH section of the configuration
  clock,              \* time.time(), counted in calls that read it
  iresp               \* the response of the last interactsh call

\* The state of the interaction listener (utils/interactsh.py).
ivars == <<interactsh_worker, process_table, files, interactsh_config, clock, iresp>>

vars == <<background_jobs, call, ret, unit, cancelReq, proc, cancels, signals, resp,
          interactsh_worker, process_table, files, interactsh_config, clock, iresp>>

NoCall == [pc |-> "idle", mode |-> "none", cmd |-> <<>>, timeout |-> 0]
NoRet == [kind |-> "none", body |-> <<>>]
NoUnit == [pc |-> "none", out |-> <<>>, err |-> <<>>, timer |-> 0]
NoProc == [leader |-> "none", pipes |-> "none", child |-> FALSE]
NoCancels == [term |-> 0, kill |-> 0]
NoSignals == [term |-> 0, acks |-> 0]
NoResp == [op |-> "none", job_id |-> 0, kind |-> "none"]

\* The job engine's variables.
jobvars == <<background_jobs, call, ret, unit, cancelReq, proc, cancels, signals, resp>>

\* No interactsh call made yet: interactsh_worker = None, no output file.
NoIResp == [op |-> "none", status |-> "none"]
NoFile == [exists |-> FALSE, lines |-> <<>>]
DEFAULT_INTERACTSH_SERVER == "oast.pro"
DEFAULT_OUTPUT_FILE == "/app/workspace/interactsh_output.json"
Paths == {DEFAULT_OUTPUT_FILE, "/tmp/out.json"}

\* The listener as the server finds it when it starts: interactsh enabled or
\* not in config.toml, and possibly an interactsh-client left by an earlier
\* instance of the server still in the process table.
ListenerInit(enabled, orphan) ==
  /\ interactsh_worker = <<>>
  /\ process_table = [own |-> 0, orphan |-> orphan]
  /\ files = [p \in Paths |-> NoFile]
  /\ interactsh_config = [enabled |-> enabled]
  /\ clock = 0
  /\ iresp = NoIResp

JobsInit ==
  /\ background_jobs = <<>>
  /\ call = [c \in Calls |-> NoCall]
  /\ ret = [c \in Calls |-> NoRet]
  /\ unit = [c \in Calls |-> NoUnit]
  /\ cancelReq = [c \in Calls |-> FALSE]
  /\ proc = [c \in Calls |-> NoProc]
  /\ cancels = [c \in Calls |-> NoCancels]
  /\ signals = [c \in Calls |-> NoSignals]
  /\ resp = NoResp

Init == JobsInit /\ ListenerInit(TRUE, FALSE)

Stored == DOMAIN background_jobs

\* The store with record j replaced / added / removed.
Put(j, rec) == [k \in Stored \cup {j} |-> IF k = j THEN rec ELSE background_jobs[k]]
Del(j) == [k \in Stored \ {j} |-> background_jobs[k]]

\* ------------------------------------------------------- the OS environment
\* Popen: a live process group; the shell may have a child in its group.
Spawned(child) == [leader |-> "alive", pipes |-> "open", child |-> child]

\* os.killpg(pgid, SIGKILL): every process of the group dies, the pipes close.
Killed(p) == [p EXCEPT !.leader = "exited", !.child = FALSE, !.pipes = "closed"]

\* The group leader alone is killed (Popen.kill by the runtime).
LeaderKilled(p) ==
  [p EXCEPT !.leader = "exited",
            !.pipes = IF p.child THEN p.pipes ELSE "closed"]

GroupAlive(p) == p.leader = "alive" \/ p.child

\* The shell exits by itself (or on a SIGTERM it received).
ProcExit(c) ==
  /\ UNCHANGED ivars
  /\ proc[c].leader = "alive"
  /\ proc' = [proc EXCEPT ![c] = LeaderKilled(@)]
  /\ resp' = NoResp
  /\ UNCHANGED <<background_jobs, call, ret, unit, cancelReq, cancels, signals>>

\* The child exits; the pipes close when nothing holds them any more.
ChildExit(c) ==
  /\ UNCHANGED ivars
  /\ proc[c].child
  /\ proc' = [proc EXCEPT ![c] =
                [@ EXCEPT !.child = FALSE,
                          !.pipes = IF proc[c].leader = "alive" THEN @ ELSE "closed"]]
  /\ resp' = NoResp
  /\ UNCHANGED <<background_jobs, call, ret, unit, cancelReq, cancels, signals>>

\* The processes close stdout and stderr and keep running.
ClosePipes(c) ==
  /\ UNCHANGED ivars
  /\ GroupAlive(proc[c])
  /\ proc[c].pipes = "open"
  /\ proc' = [proc EXCEPT ![c].pipes = "closed"]
  /\ resp' = NoResp
  /\ UNCHANGED <<background_jobs, call, ret, unit, cancelReq, cancels, signals>>

\* ------------------------------------------------ command.run_command (sync)
\* What run_kali_command returns on the synchronous route for the tuple
\* (stdout, stderr, return_code) of run_command.
SyncResult(out, err, rc) ==
  [kind |-> "output", body |-> Block(SyncSection(out), SyncSection(err), Some(rc))]

\* Mutant of SyncTimeoutResult: the timeout reported with exit code 0.
SyncTimeoutResultZero == SyncResult(<<>>, TIMEOUT_MSG, 0)

\* run_command's timeout tuple ("", "Command timed out ...", -1).
SyncTimeoutResult == SyncResult(<<>>, TIMEOUT_MSG, -1)

\* run_kali_command returns r to its caller.
Return(c, r) ==
  /\ ret' = [ret EXCEPT ![c] = r]
  /\ call' = [call EXCEPT ![c].pc = "returned"]

\* The first record of a job (kali_server.py, "Initialize tracking data").
NewJob(cmd, timeout) ==
  [command |-> cmd, status |-> "running", timeout |-> timeout,
   return_code |-> None, task |-> TRUE, process |-> FALSE,
   stdout |-> <<>>, stderr |-> <<>>, end_time |-> 0]

\* Mutant of ErrorJob: the status alone is written.
ErrorJobStatusOnly(job) == [job EXCEPT !.status = "error"]

\* The except-Exception handler of run_background_command.
ErrorJob(job) ==
  [job EXCEPT !.status = "error", !.stderr = BG_ERROR_MSG, !.end_time = @ + 1]

\* Invocation c is still executing: run_kali_command has not returned, or the
\* unit or a cancel_job of its job is suspended at an await.
Active(c) ==
  \/ call[c].pc \in {"sync", "fastpath"}
  \/ unit[c].pc \in {"spawn", "read", "wait", "cleanup_term", "cleanup_kill"}
  \/ cancels[c].term + cancels[c].kill > 0

\* Mutant of as_job: the boundary taken on the wrong side.
as_job_ge(timeout) == timeout >= 60

\* "Determine if to run as job based on timeout".
as_job(timeout) == timeout > 60

\* run_kali_command from its entry to its first suspension (or its return).
\* For a background job the unit's first segment (the spawn) is included: it is
\* the first thing the loop runs once run_kali_command is suspended.
Submit(c, cmd, timeout, cwd) ==
  /\ UNCHANGED ivars
  /\ call[c].pc = "idle"
  /\ \A d \in Calls : d < c => call[d].pc # "idle"
  /\ Cardinality({d \in Calls : Active(d)}) < MaxActive
  /\ resp' = NoResp
  /\ IF Strip(cmd) = <<>>
     THEN \* "Command cannot be empty"
          /\ ret' = [ret EXCEPT ![c] = [kind |-> "invalid", body |-> <<>>]]
          /\ call' = [call EXCEPT ![c] =
                        [pc |-> "returned", mode |-> "invalid", cmd |-> cmd, timeout |-> timeout]]
          /\ UNCHANGED <<background_jobs, unit, cancelReq, proc, cancels, signals>>
     ELSE IF ~as_job(timeout)
     THEN \* synchronous: await command.run_command(cmd, timeout, cwd)
          IF cwd = "/nonexistent"
          THEN \* the spawn raises; run_command returns ("", message, -1)
               /\ ret' = [ret EXCEPT ![c] = SyncResult(<<>>, SYNC_ERROR_MSG, -1)]
               /\ call' = [call EXCEPT ![c] =
                             [pc |-> "returned", mode |-> "sync", cmd |-> cmd, timeout |-> timeout]]
               /\ UNCHANGED <<background_jobs, unit, cancelReq, proc, cancels, signals>>
          ELSE /\ \E child \in BOOLEAN : proc' = [proc EXCEPT ![c] = Spawned(child)]
               /\ unit' = [unit EXCEPT ![c].pc = "spawn"]
               /\ call' = [call EXCEPT ![c] =
                             [pc |-> "sync", mode |-> "sync", cmd |-> cmd, timeout |-> timeout]]
               /\ UNCHANGED <<background_jobs, ret, cancelReq, cancels, signals>>
     ELSE \* background: create the job, start the task, wait_for(shield(task), 2.0)
          LET j == generate_job_id(c) IN
          /\ call' = [call EXCEPT ![c] =
                        [pc |-> "fastpath", mode |-> "job", cmd |-> cmd, timeout |-> timeout]]
          /\ IF cwd = "/nonexistent"
             THEN /\ background_jobs' = Put(j, ErrorJob(NewJob(cmd, timeout)))
                  /\ unit' = [unit EXCEPT ![c].pc = "done"]
                  /\ proc' = proc
             ELSE /\ background_jobs' = Put(j, NewJob(cmd, timeout))
                  /\ unit' = [unit EXCEPT ![c].pc = "spawn"]
                  /\ \E child \in BOOLEAN : proc' = [proc EXCEPT ![c] = Spawned(child)]
          /\ UNCHANGED <<ret, cancelReq, cancels, signals>>

Sync(c) == call[c].pc = "sync"

\* create_subprocess_shell returns the process.
RunSpawned(c) ==
  /\ UNCHANGED ivars
  /\ Sync(c) /\ unit[c].pc = "spawn"
  /\ unit' = [unit EXCEPT ![c].pc = "read", ![c].timer = call[c].timeout]
  /\ resp' = NoResp
  /\ UNCHANGED <<background_jobs, call, ret, cancelReq, proc, cancels, signals>>

\* Both reads reached end of file; then await process.wait().
RunReadDone(c) ==
  /\ UNCHANGED ivars
  /\ Sync(c) /\ unit[c].pc = "read"
  /\ proc[c].pipes = "closed"
  /\ resp' = NoResp
  /\ \E d \in PipeData, rc \in ExitCodes :
       IF proc[c].leader = "exited"
       THEN /\ Return(c, SyncResult(Strip(d[1]), Strip(d[2]), rc))
            /\ unit' = [unit EXCEPT ![c] = [NoUnit EXCEPT !.pc = "done"]]
       ELSE /\ unit' = [unit EXCEPT ![c] = [pc |-> "wait", out |-> d[1], err |-> d[2], timer |-> 0]]
            /\ UNCHANGED <<call, ret>>
  /\ UNCHANGED <<background_jobs, cancelReq, proc, cancels, signals>>

\* process.wait() returns the exit code.
RunWaitDone(c) ==
  /\ UNCHANGED ivars
  /\ Sync(c) /\ unit[c].pc = "wait"
  /\ proc[c].leader = "exited"
  /\ \E rc \in ExitCodes :
       Return(c, SyncResult(Strip(unit[c].out), Strip(unit[c].err), rc))
  /\ unit' = [unit EXCEPT ![c] = [NoUnit EXCEPT !.pc = "done"]]
  /\ resp' = NoResp
  /\ UNCHANGED <<background_jobs, cancelReq, proc, cancels, signals>>

\* The reads did not finish within timeout seconds: _cleanup_process starts.
\* os.getpgid raises ProcessLookupError for a process already reaped, and
\* _cleanup_process swallows it.
RunTimeout(c) ==
  /\ UNCHANGED ivars
  /\ Sync(c) /\ unit[c].pc = "read"
  /\ resp' = NoResp
  /\ IF proc[c].leader = "exited"
     THEN /\ Return(c, SyncTimeoutResult)
          /\ unit' = [unit EXCEPT ![c] = [NoUnit EXCEPT !.pc = "done"]]
     ELSE /\ unit' = [unit EXCEPT ![c].pc = "cleanup_term", ![c].timer = 5]
          /\ UNCHANGED <<call, ret>>
  /\ UNCHANGED <<background_jobs, cancelReq, proc, cancels, signals>>

\* The 5 s grace expired: SIGKILL to the group, then await process.wait().
RunCleanupKill(c) ==
  /\ UNCHANGED ivars
  /\ Sync(c) /\ unit[c].pc = "cleanup_term"
  /\ resp' = NoResp
  /\ IF proc[c].leader = "exited"
     THEN /\ Return(c, SyncTimeoutResult)
          /\ unit' = [unit EXCEPT ![c] = [NoUnit EXCEPT !.pc = "done"]]
          /\ proc' = proc
     ELSE /\ proc' = [proc EXCEPT ![c] = Killed(@)]
          /\ unit' = [unit EXCEPT ![c].pc = "cleanup_kill", ![c].timer = 0]
          /\ UNCHANGED <<call, ret>>
  /\ UNCHANGED <<background_jobs, cancelReq, cancels, signals>>

\* process.wait() returned inside _cleanup_process: run_command returns timeout.
RunCleanupDone(c) ==
  /\ UNCHANGED ivars
  /\ Sync(c) /\ unit[c].pc \in {"cleanup_term", "cleanup_kill"}
  /\ proc[c].leader = "exited"
  /\ Return(c, SyncTimeoutResult)
  /\ unit' = [unit EXCEPT ![c] = [NoUnit EXCEPT !.pc = "done"]]
  /\ resp' = NoResp
  /\ UNCHANGED <<background_jobs, cancelReq, proc, cancels, signals>>

\* ------------------------------------- run_background_command (the unit)
Bg(c) == call[c].mode = "job"

\* Mutant of Resumes: a pending cancellation does not preempt the event.
ResumesDespiteCancel(j, pcs) == Bg(j) /\ unit[j].pc \in pcs

\* The unit of job j is suspended at an await and no cancellation is pending:
\* the event it waits for resumes it.
Resumes(j, pcs) == Bg(j) /\ unit[j].pc \in pcs /\ ~cancelReq[j]

\* background_jobs[job_id][...] = ... by the unit, which then moves to pc; the
\* subscript raises KeyError when the id is no longer a key, and the task ends
\* with that exception.
UnitWrite(j, rec, pc) ==
  IF j \in Stored
  THEN /\ background_jobs' = Put(j, rec)
       /\ unit' = [unit EXCEPT ![j] = [NoUnit EXCEPT !.pc = pc]]
  ELSE /\ background_jobs' = background_jobs
       /\ unit' = [unit EXCEPT ![j] = [NoUnit EXCEPT !.pc = "failed"]]

\* "Store simple output": the decoded data, unstripped, and the exit code.
CompletedJob(job, out, err, rc) ==
  [job EXCEPT !.stdout = out, !.stderr = err, !.return_code = Some(rc),
              !.status = "completed", !.end_time = @ + 1]

\* Mutant of TimeoutJob: no return code is written.
TimeoutJobNoCode(job) ==
  [job EXCEPT !.stderr = TIMEOUT_MSG, !.status = "timeout", !.end_time = @ + 1]

\* The writes after _cleanup_process on a timeout.
TimeoutJob(job) ==
  [job EXCEPT !.stderr = TIMEOUT_MSG, !.return_code = Some(-1),
              !.status = "timeout", !.end_time = @ + 1]

\* The except-CancelledError handler's writes.
CancelledJob(job) ==
  [job EXCEPT !.status = "cancelled", !.end_time = @ + 1, !.stderr = CANCEL_MSG]

\* create_subprocess_shell returns: "Store process for potential cancellation".
BgSpawned(j) ==
  /\ UNCHANGED ivars
  /\ Resumes(j, {"spawn"})
  /\ IF j \in Stored
     THEN /\ background_jobs' = Put(j, [background_jobs[j] EXCEPT !.process = TRUE])
          /\ unit' = [unit EXCEPT ![j].pc = "read", ![j].timer = call[j].timeout]
     ELSE /\ background_jobs' = background_jobs
          /\ unit' = [unit EXCEPT ![j].pc = "failed"]
  /\ resp' = NoResp
  /\ UNCHANGED <<call, ret, cancelReq, proc, cancels, signals>>

\* Both reads reached end of file within the timeout; then await process.wait(),
\* which does not suspend when the exit code is already known.
BgReadDone(j) ==
  /\ UNCHANGED ivars
  /\ Resumes(j, {"read"})
  /\ proc[j].pipes = "closed"
  /\ resp' = NoResp
  /\ \E d \in PipeData, rc \in ExitCodes :
       IF proc[j].leader = "exited"
       THEN UnitWrite(j, CompletedJob(background_jobs[j], d[1], d[2], rc), "done")
       ELSE /\ unit' = [unit EXCEPT ![j] = [pc |-> "wait", out |-> d[1], err |-> d[2], timer |-> 0]]
            /\ background_jobs' = background_jobs
  /\ UNCHANGED <<call, ret, cancelReq, proc, cancels, signals>>

\* process.wait() returns the exit code: the job is completed.
BgWaitDone(j) ==
  /\ UNCHANGED ivars
  /\ Resumes(j, {"wait"})
  /\ proc[j].leader = "exited"
  /\ \E rc \in ExitCodes :
       UnitWrite(j, CompletedJob(background_jobs[j], unit[j].out, unit[j].err, rc), "done")
  /\ resp' = NoResp
  /\ UNCHANGED <<call, ret, cancelReq, proc, cancels, signals>>

\* asyncio.TimeoutError from the reads: _cleanup_process sends SIGTERM to the
\* group and waits up to 5 s; a process already reaped makes os.getpgid raise,
\* which _cleanup_process swallows, and the timeout is recorded at once.
BgTimeout(j) ==
  /\ UNCHANGED ivars
  /\ Resumes(j, {"read"})
  /\ resp' = NoResp
  /\ IF proc[j].leader = "exited"
     THEN UnitWrite(j, TimeoutJob(background_jobs[j]), "done")
     ELSE /\ unit' = [unit EXCEPT ![j].pc = "cleanup_term", ![j].timer = 5]
          /\ background_jobs' = background_jobs
  /\ UNCHANGED <<call, ret, cancelReq, proc, cancels, signals>>

\* The 5 s grace expired: SIGKILL to the group, then await process.wait().
BgCleanupKill(j) ==
  /\ UNCHANGED ivars
  /\ Resumes(j, {"cleanup_term"})
  /\ resp' = NoResp
  /\ IF proc[j].leader = "exited"
     THEN /\ UnitWrite(j, TimeoutJob(background_jobs[j]), "done")
          /\ proc' = proc
     ELSE /\ proc' = [proc EXCEPT ![j] = Killed(@)]
          /\ unit' = [unit EXCEPT ![j].pc = "cleanup_kill", ![j].timer = 0]
          /\ background_jobs' = background_jobs
  /\ UNCHANGED <<call, ret, cancelReq, cancels, signals>>

\* process.wait() returned inside _cleanup_process: the timeout is recorded.
BgCleanupDone(j) ==
  /\ UNCHANGED ivars
  /\ Resumes(j, {"cleanup_term", "cleanup_kill"})
  /\ proc[j].leader = "exited"
  /\ UnitWrite(j, TimeoutJob(background_jobs[j]), "done")
  /\ resp' = NoResp
  /\ UNCHANGED <<call, ret, cancelReq, proc, cancels, signals>>

AWAITING == {"spawn", "read", "wait", "cleanup_term", "cleanup_kill"}

\* task.cancel() is delivered: CancelledError is raised at the await the unit is
\* suspended in (inside create_subprocess_shell the runtime first kills the
\* process it spawned), the handler records 'cancelled' and re-raises.
BgCancelled(j) ==
  /\ UNCHANGED ivars
  /\ Bg(j) /\ cancelReq[j] /\ unit[j].pc \in AWAITING
  /\ cancelReq' = [cancelReq EXCEPT ![j] = FALSE]
  /\ proc' = IF unit[j].pc = "spawn" THEN [proc EXCEPT ![j] = LeaderKilled(@)] ELSE proc
  /\ UnitWrite(j, CancelledJob(background_jobs[j]), "cancelled")
  /\ resp' = NoResp
  /\ UNCHANGED <<call, ret, cancels, signals>>

\* ------------------------------------ run_kali_command: the fast-path wait
\* The block built from the job record (fast path and get_job_status alike).
JobBlock(job) ==
  Block(JobSection(job.stdout), JobSection(job.stderr), job.return_code)

StartFailed == [kind |-> "error", body |-> <<>>]

\* wait_for(shield(task), 2.0) returns: the unit finished within the window.
\* The job's output is read and the job deleted; a KeyError here, or the
\* exception the task ended with, is caught by "except Exception".
FastPathDone(c) ==
  /\ UNCHANGED ivars
  /\ call[c].pc = "fastpath"
  /\ unit[c].pc \in {"done", "failed"}
  /\ LET j == generate_job_id(c) IN
     IF unit[c].pc = "done" /\ j \in Stored
     THEN /\ Return(c, [kind |-> "output", body |-> JobBlock(background_jobs[j])])
          /\ background_jobs' = Del(j)
     ELSE /\ Return(c, StartFailed)
          /\ background_jobs' = background_jobs
  /\ resp' = NoResp
  /\ UNCHANGED <<unit, cancelReq, proc, cancels, signals>>

\* The task was cancelled within the window: the shield's future is cancelled
\* too, and CancelledError, which "except Exception" does not catch, leaves
\* run_kali_command.
FastPathCancelled(c) ==
  /\ UNCHANGED ivars
  /\ call[c].pc = "fastpath"
  /\ unit[c].pc = "cancelled"
  /\ ret' = [ret EXCEPT ![c] = [kind |-> "raised", body |-> <<>>]]
  /\ call' = [call EXCEPT ![c].pc = "raised"]
  /\ resp' = NoResp
  /\ UNCHANGED <<background_jobs, unit, cancelReq, proc, cancels, signals>>

\* The job handle of the JSON reply.
Handle(c) ==
  [kind |-> "handle",
   body |-> [job_id |-> generate_job_id(c), command |-> call[c].cmd,
             status |-> "running", timeout |-> call[c].timeout]]

\* asyncio.TimeoutError after 2 s: the shielded task is left alone and the
\* handle is returned.
FastPathTimeout(c) ==
  /\ UNCHANGED ivars
  /\ call[c].pc = "fastpath"
  /\ unit[c].pc \in AWAITING
  /\ Return(c, Handle(c))
  /\ resp' = NoResp
  /\ UNCHANGED <<background_jobs, unit, cancelReq, proc, cancels, signals>>

\* The job ids callers ask about: the id of every invocation made so far; that
\* of a synchronous or rejected invocation is an id no job ever had.
JobIds == {c \in Calls : call[c].pc # "idle"}

\* ------------------------------------------------------------ get_job_status
\* Mutant of get_job_status: a terminal job is shown and kept.
get_job_status_keep(j) ==
  /\ UNCHANGED ivars
  /\ IF j \notin Stored
     THEN resp' = [op |-> "get_job_status", job_id |-> j, kind |-> "not_found"]
     ELSE IF background_jobs[j].status = "running"
     THEN resp' = [op |-> "get_job_status", job_id |-> j, kind |-> "running",
                   status |-> background_jobs[j].status,
                   timeout |-> background_jobs[j].timeout]
     ELSE resp' = [op |-> "get_job_status", job_id |-> j, kind |-> "output",
                   body |-> JobBlock(background_jobs[j])]
  /\ UNCHANGED <<background_jobs, call, ret, unit, cancelReq, proc, cancels, signals>>

\* Mutant of StillRunning: the query drops the running job.
StillRunningDropped(j) == Del(j)

\* The store after a status query of running job j: "if cmd_data['status'] ==
\* 'running': return {...}" writes nothing.
StillRunning(j) == background_jobs

get_job_status(j) ==
  /\ UNCHANGED ivars
  /\ IF j \notin Stored
     THEN /\ resp' = [op |-> "get_job_status", job_id |-> j, kind |-> "not_found"]
          /\ background_jobs' = background_jobs
     ELSE IF background_jobs[j].status = "running"
     THEN /\ resp' = [op |-> "get_job_status", job_id |-> j, kind |-> "running",
                      status |-> background_jobs[j].status,
                      timeout |-> background_jobs[j].timeout]
          /\ background_jobs' = StillRunning(j)
     ELSE /\ resp' = [op |-> "get_job_status", job_id |-> j, kind |-> "output",
                      body |-> JobBlock(background_jobs[j])]
          /\ background_jobs' = Del(j)
  /\ UNCHANGED <<call, ret, unit, cancelReq, proc, cancels, signals>>

\* ------------------------------------------------------ list_background_jobs
\* Mutant of Preview: the preview cut to the 50 characters without the dots.
PreviewCut(command) ==
  IF Len(command) > 50 THEN SubSeq(command, 1, 50) ELSE command

\* command[:50] + "..." if len(command) > 50 else command
Preview(command) ==
  IF Len(command) > 50 THEN SubSeq(command, 1, 50) \o <<".", ".", ".">> ELSE command

JobInfo(j) ==
  [job_id |-> j, status |-> background_jobs[j].status,
   timeout |-> background_jobs[j].timeout,
   command |-> Preview(background_jobs[j].command)]

list_background_jobs ==
  /\ UNCHANGED ivars
  /\ resp' = [op |-> "list_background_jobs", job_id |-> 0, kind |-> "jobs",
              jobs |-> {JobInfo(j) : j \in Stored},
              total_count |-> Cardinality(Stored)]
  /\ UNCHANGED <<background_jobs, call, ret, unit, cancelReq, proc, cancels, signals>>

\* ---------------------------------------------------------------- cancel_job
\* Mutant of Cancellable: only a completed job is refused.
CancellableUnlessCompleted(job) == job.status # "completed"

\* "if status != 'running'": only a running job is cancelled.
Cancellable(job) == job.status = "running"

\* Mutant of MarkCancelled: the cancelled job is dropped from the store.
MarkCancelledAndDrop(j) == Del(j)

\* "Update status": cancel_job writes through cmd_data, the record it looked up
\* on entry; when the job has been removed meanwhile the store does not change.
MarkCancelled(j) ==
  IF j \in Stored
  THEN Put(j, [background_jobs[j] EXCEPT !.status = "cancelled", !.end_time = @ + 1])
  ELSE background_jobs

Ack(j) == [op |-> "cancel_job", job_id |-> j, kind |-> "cancelled"]

\* {"error": "Failed to cancel job: ..."}
CancelFailed(j) == [op |-> "cancel_job", job_id |-> j, kind |-> "error"]

\* cancel_job from its entry to its first suspension (or its return).
cancel_job(j) ==
  /\ UNCHANGED ivars
  /\ IF j \notin Stored
     THEN /\ resp' = [op |-> "cancel_job", job_id |-> j, kind |-> "not_found"]
          /\ UNCHANGED <<background_jobs, call, ret, unit, cancelReq, proc, cancels, signals>>
     ELSE IF ~Cancellable(background_jobs[j])
     THEN /\ resp' = [op |-> "cancel_job", job_id |-> j, kind |-> "conflict",
                      current_status |-> background_jobs[j].status]
          /\ UNCHANGED <<background_jobs, call, ret, unit, cancelReq, proc, cancels, signals>>
     ELSE \* cmd_data['task'].cancel()
          /\ cancelReq' = [cancelReq EXCEPT ![j] = unit[j].pc \in AWAITING]
          /\ IF background_jobs[j].process /\ proc[j].leader = "alive"
             THEN \* killpg(SIGTERM), then await wait_for(process.wait(), 3)
                  \/ /\ cancels[j].term + cancels[j].kill < MaxCancels
                     /\ signals' = [signals EXCEPT ![j].term = @ + 1]
                     /\ cancels' = [cancels EXCEPT ![j].term = @ + 1]
                     /\ resp' = NoResp
                     /\ background_jobs' = background_jobs
                  \* killpg raises PermissionError: "except Exception"
                  \/ /\ resp' = CancelFailed(j)
                     /\ UNCHANGED <<background_jobs, signals, cancels>>
             ELSE \* no handle stored, or ProcessLookupError: straight to the update
                  /\ background_jobs' = MarkCancelled(j)
                  /\ signals' = [signals EXCEPT ![j].acks = @ + 1]
                  /\ resp' = Ack(j)
                  /\ cancels' = cancels
          /\ UNCHANGED <<call, ret, unit, proc>>

\* The process exited within the 3 s: status update and acknowledgement.
CancelTermDone(j) ==
  /\ UNCHANGED ivars
  /\ cancels[j].term > 0
  /\ proc[j].leader = "exited"
  /\ cancels' = [cancels EXCEPT ![j].term = @ - 1]
  /\ background_jobs' = MarkCancelled(j)
  /\ signals' = [signals EXCEPT ![j].acks = @ + 1]
  /\ resp' = Ack(j)
  /\ UNCHANGED <<call, ret, unit, cancelReq, proc>>

\* The 3 s expired: killpg(SIGKILL), then await process.wait(); a process
\* reaped at that very moment raises ProcessLookupError, which is swallowed.
CancelTermTimeout(j) ==
  /\ UNCHANGED ivars
  /\ cancels[j].term > 0
  /\ IF proc[j].leader = "exited"
     THEN /\ cancels' = [cancels EXCEPT ![j].term = @ - 1]
          /\ background_jobs' = MarkCancelled(j)
          /\ signals' = [signals EXCEPT ![j].acks = @ + 1]
          /\ resp' = Ack(j)
          /\ proc' = proc
     ELSE /\ cancels' = [cancels EXCEPT ![j].term = @ - 1, ![j].kill = @ + 1]
          /\ proc' = [proc EXCEPT ![j] = Killed(@)]
          /\ signals' = signals
          /\ resp' = NoResp
          /\ background_jobs' = background_jobs
  /\ UNCHANGED <<call, ret, unit, cancelReq>>

\* process.wait() returned after the SIGKILL.
CancelKillDone(j) ==
  /\ UNCHANGED ivars
  /\ cancels[j].kill > 0
  /\ proc[j].leader = "exited"
  /\ cancels' = [cancels EXCEPT ![j].kill = @ - 1]
  /\ background_jobs' = MarkCancelled(j)
  /\ signals' = [signals EXCEPT ![j].acks = @ + 1]
  /\ resp' = Ack(j)
  /\ UNCHANGED <<call, ret, unit, cancelReq, proc>>

\* ------------------------------------------------------ utils/interactsh.py
\* Every function of the module runs without an await (time.sleep and
\* subprocess.run block the event loop), so each call is one step.

\* The output_file argument of start_interactsh.
OutputFiles == {None, Some("/tmp/out.json")}

\* What _parse_payloads_from_output finds in the banner read from the pty;
\* nothing readable within the 5 s select gives [].
Payloads == {<<>>, <<"p1">>}

\* Tokens of a line of the output file: a complete JSON value, a comma, text
\* that is no JSON, a byte sequence that is no UTF-8, white space.
Values == {"a", "b"}
Undecodable == "0xFF"
Lines == {<<"a">>, <<"b">>, <<" ">>, <<"x">>, <<"a", ",", "b">>, <<Undecodable>>}

Worker == interactsh_worker[1]
Running == interactsh_worker # None /\ Worker.status = "running"

\* pgrep -f interactsh-client: some process matches the name.
is_running == process_table.own > 0 \/ process_table.orphan

\* pkill -f interactsh-client: every process matching the name is killed.
Pkill == [own |-> 0, orphan |-> FALSE]

\* Mutant of AlreadyRunning: the check is skipped.
AlreadyRunningNever == FALSE

\* "Check if worker is already running"
AlreadyRunning == Running

IError(op, error) == [op |-> op, status |-> "error", error |-> error]

\* Mutant of NoPayloadsWorker: the record is written before the payload check.
NoPayloadsWorkerRunning(path) ==
  Some([status |-> "running", start_time |-> clock + 1,
        server |-> DEFAULT_INTERACTSH_SERVER, output_file |-> path,
        payloads |-> <<>>])

\* The worker record after a start that found no payloads: as it was.
NoPayloadsWorker(path) == interactsh_worker

start_interactsh(output_file) ==
  /\ UNCHANGED jobvars
  /\ IF AlreadyRunning
     THEN /\ iresp' = [op |-> "start_interactsh", status |-> "error",
                       error |-> "Interactsh worker is already running",
                       payloads |-> Worker.payloads]
          /\ UNCHANGED <<interactsh_worker, process_table, files, interactsh_config, clock>>
     ELSE IF ~interactsh_config.enabled
     THEN /\ iresp' = IError("start_interactsh", "Interactsh is disabled in configuration")
          /\ UNCHANGED <<interactsh_worker, process_table, files, interactsh_config, clock>>
     ELSE LET path == IF output_file = None THEN DEFAULT_OUTPUT_FILE ELSE output_file[1] IN
          \* os.remove(output_file), then Popen, the banner, the payload check
          /\ files' = [files EXCEPT ![path] = NoFile]
          /\ interactsh_config' = interactsh_config
          /\ \E spawned \in BOOLEAN, payloads \in Payloads :
               IF ~spawned
               THEN \* Popen raises: "except Exception"
                    /\ iresp' = IError("start_interactsh", "Failed to start interactsh worker: {e}")
                    /\ UNCHANGED <<interactsh_worker, process_table, clock>>
               ELSE IF payloads = <<>>
               THEN /\ process_table' = Pkill
                    /\ interactsh_worker' = NoPayloadsWorker(path)
                    /\ iresp' = IError("start_interactsh", "Failed to generate interactsh payloads")
                    /\ clock' = clock
               ELSE /\ clock < MaxStarts
                    /\ process_table' = [process_table EXCEPT !.own = @ + 1]
                    /\ clock' = clock + 1
                    /\ interactsh_worker' =
                         Some([status |-> "running", start_time |-> clock + 1,
                               server |-> DEFAULT_INTERACTSH_SERVER,
                               output_file |-> path, payloads |-> payloads])
                    /\ iresp' = [op |-> "start_interactsh", status |-> "running",
                                 payloads |-> payloads, output_file |-> path]

\* lines = [line.strip() for line in f if line.strip()]
RECURSIVE NonBlank(_)
NonBlank(ls) ==
  IF ls = <<>> THEN <<>>
  ELSE IF Strip(Head(ls)) = <<>> THEN NonBlank(Tail(ls))
  ELSE <<Strip(Head(ls))>> \o NonBlank(Tail(ls))

\* ','.join(lines), for at least one line
RECURSIVE Join(_)
Join(ls) ==
  IF Len(ls) = 1 THEN ls[1] ELSE ls[1] \o <<",">> \o Join(Tail(ls))

JSONDecodeError == [ok |-> FALSE, items |-> <<>>]

\* json.loads('[' + text + ']'): the elements of the array when the text is
\* values separated by commas, JSONDecodeError otherwise.
RECURSIVE Elements(_)
Elements(t) ==
  IF t = <<>> \/ Head(t) \notin Values THEN JSONDecodeError
  ELSE IF Len(t) = 1 THEN [ok |-> TRUE, items |-> <<Head(t)>>]
  ELSE IF t[2] # "," THEN JSONDecodeError
  ELSE LET rest == Elements(SubSeq(t, 3, Len(t))) IN
       IF rest.ok THEN [ok |-> TRUE, items |-> <<Head(t)>> \o rest.items]
       ELSE JSONDecodeError

\* Reading the text file decodes it: a line that is no UTF-8 raises
\* UnicodeDecodeError, which only the outer "except Exception" catches.
Decodes(file) ==
  \A i \in 1..Len(file.lines) :
    \A k \in 1..Len(file.lines[i]) : file.lines[i][k] # Undecodable

PollSuccess(path, interactions) ==
  [op |-> "poll_interactsh", status |-> "success", interactions |-> interactions,
   count |-> Len(interactions), output_file |-> path,
   file_exists |-> files[path].exists]

\* "if lines: interactions = json.loads('[' + ','.join(lines) + ']')", and []
\* on JSONDecodeError.
Interactions(lines) ==
  IF lines = <<>> THEN <<>>
  ELSE IF Elements(Join(lines)).ok THEN Elements(Join(lines)).items ELSE <<>>

poll_interactsh ==
  /\ UNCHANGED jobvars
  /\ UNCHANGED <<interactsh_worker, process_table, files, interactsh_config, clock>>
  /\ IF interactsh_worker = None
     THEN iresp' = [op |-> "poll_interactsh", status |-> "error",
                    error |-> "No interactsh worker is running", interactions |-> <<>>]
     ELSE IF Worker.status # "running"
     THEN iresp' = [op |-> "poll_interactsh", status |-> "error",
                    error |-> "Interactsh worker is stopped", interactions |-> <<>>]
     ELSE LET path == Worker.output_file
              file == files[path] IN
          IF ~file.exists THEN iresp' = PollSuccess(path, <<>>)
          ELSE IF ~Decodes(file)
          THEN iresp' = [op |-> "poll_interactsh", status |-> "error",
                         error |-> "Failed to poll interactions: {e}",
                         interactions |-> <<>>]
          ELSE iresp' = PollSuccess(path, Interactions(NonBlank(file.lines)))

\* Mutant of Downgraded: the recorded status is reported as it is.
DowngradedNever == FALSE

\* "if not is_running and worker_status == 'running'"
Downgraded == ~is_running /\ Worker.status = "running"

get_interactsh_status ==
  /\ UNCHANGED jobvars
  /\ UNCHANGED <<process_table, files, interactsh_config, clock>>
  /\ IF interactsh_worker = None
     THEN /\ iresp' = [op |-> "get_interactsh_status", status |-> "stopped",
                       message |-> "No interactsh worker has been started"]
          /\ interactsh_worker' = interactsh_worker
     ELSE LET worker_status == IF Downgraded THEN "stopped" ELSE Worker.status IN
          /\ interactsh_worker' = Some([Worker EXCEPT !.status = worker_status])
          /\ iresp' = [op |-> "get_interactsh_status", status |-> worker_status,
                       server |-> Worker.server, output_file |-> Worker.output_file,
                       payloads |-> Worker.payloads,
                       message |-> IF is_running THEN "Worker is running"
                                   ELSE "Worker has stopped"]

\* Mutant of Stopped: the kill is made, the status kept.
StoppedKeepsStatus == Some(Worker)

\* "Update status": interactsh_worker['status'] = 'stopped'
Stopped == Some([Worker EXCEPT !.status = "stopped"])

stop_interactsh ==
  /\ UNCHANGED jobvars
  /\ UNCHANGED <<files, interactsh_config, clock>>
  /\ IF interactsh_worker = None
     THEN /\ iresp' = IError("stop_interactsh", "No interactsh worker is running")
          /\ UNCHANGED <<interactsh_worker, process_table>>
     ELSE IF Worker.status # "running"
     THEN /\ iresp' = IError("stop_interactsh", "Interactsh worker is already stopped")
          /\ UNCHANGED <<interactsh_worker, process_table>>
     ELSE /\ process_table' = Pkill
          /\ interactsh_worker' = Stopped
          /\ iresp' = [op |-> "stop_interactsh", status |-> "stopped",
                       payload_count |-> Len(Worker.payloads)]

\* The environment of the listener: a listener process exits by itself, ...
ListenerExit ==
  /\ process_table.own > 0
  /\ process_table' = [process_table EXCEPT !.own = @ - 1]
  /\ iresp' = NoIResp
  /\ UNCHANGED jobvars
  /\ UNCHANGED <<interactsh_worker, files, interactsh_config, clock>>

OrphanExit ==
  /\ process_table.orphan
  /\ process_table' = [process_table EXCEPT !.orphan = FALSE]
  /\ iresp' = NoIResp
  /\ UNCHANGED jobvars
  /\ UNCHANGED <<interactsh_worker, files, interactsh_config, clock>>

\* ... and a line is appended to the worker's output file (-o), by the
\* listener or by a command working in the workspace.
WriteLine(line) ==
  /\ interactsh_worker # None
  /\ Len(files[Worker.output_file].lines) < MaxLines
  /\ files' = [files EXCEPT ![Worker.output_file] =
                 [exists |-> TRUE, lines |-> Append(@.lines, line)]]
  /\ iresp' = NoIResp
  /\ UNCHANGED jobvars
  /\ UNCHANGED <<interactsh_worker, process_table, interactsh_config, clock>>

InteractshNext ==
  \/ \E output_file \in OutputFiles : start_interactsh(output_file)
  \/ poll_interactsh
  \/ get_interactsh_status
  \/ stop_interactsh
  \/ ListenerExit
  \/ OrphanExit
  \/ \E line \in Lines : WriteLine(line)

InteractshInit ==
  /\ JobsInit
  /\ \E enabled \in BOOLEAN, orphan \in BOOLEAN : ListenerInit(enabled, orphan)

InteractshSpec == InteractshInit /\ [][InteractshNext]_vars

\* ------------------------------------------- command.generate_job_id
\* str(uuid.uuid4())[:8]: eight hexadecimal digits drawn at random. Nothing
\* makes two draws differ, and run_kali_command does not look the id up before
\* it stores the job. Here the ids are kept apart from the invocations, and
\* the execution of a command is reduced to its writes to the store.
JobIdTokens == {"0a1b2c3d", "4e5f6a7b"}
IdCommands == {<<"x">>, <<"y">>}

\* run_kali_command, timeout > 60: generate the id, store the job, start the
\* task (whose first segment spawns the process), wait_for(shield(task), 2.0).
IdSubmit(c, job_id, cmd) ==
  /\ call[c].pc = "idle"
  /\ \A d \in Calls : d < c => call[d].pc # "idle"
  /\ background_jobs' = Put(job_id, NewJob(cmd, 61))
  /\ call' = [call EXCEPT ![c] = [pc |-> "fastpath", mode |-> "job", cmd |-> cmd,
                                  timeout |-> 61, job_id |-> job_id]]
  /\ unit' = [unit EXCEPT ![c].pc = "spawn"]
  /\ resp' = NoResp
  /\ UNCHANGED <<ret, cancelReq, proc, cancels, signals>>
  /\ UNCHANGED ivars

\* The unit of invocation c writes rec to background_jobs[job_id] and moves to
\* pc; KeyError ends the task when the id is no longer a key.
IdUnitWrite(c, rec, pc) ==
  IF call[c].job_id \in Stored
  THEN /\ background_jobs' = Put(call[c].job_id, rec)
       /\ unit' = [unit EXCEPT ![c].pc = pc]
  ELSE /\ background_jobs' = background_jobs
       /\ unit' = [unit EXCEPT ![c].pc = "failed"]

\* "Store process for potential cancellation".
IdSpawned(c) ==
  /\ Bg(c) /\ unit[c].pc = "spawn"
  /\ IdUnitWrite(c, [background_jobs[call[c].job_id] EXCEPT !.process = TRUE], "read")
  /\ resp' = NoResp
  /\ UNCHANGED <<call, ret, cancelReq, proc, cancels, signals>>
  /\ UNCHANGED ivars

\* "Store simple output": the command printed its own text and exited 0.
IdCompleted(c) ==
  /\ Bg(c) /\ unit[c].pc = "read"
  /\ IdUnitWrite(c, CompletedJob(background_jobs[call[c].job_id], call[c].cmd, <<>>, 0),
                 "done")
  /\ resp' = NoResp
  /\ UNCHANGED <<call, ret, cancelReq, proc, cancels, signals>>
  /\ UNCHANGED ivars

\* The fast path: the task ended within the window; the output is read from
\* the store and the job deleted (KeyError is caught by "except Exception").
IdFastPathDone(c) ==
  /\ call[c].pc = "fastpath" /\ unit[c].pc \in {"done", "failed"}
  /\ IF unit[c].pc = "done" /\ call[c].job_id \in Stored
     THEN /\ Return(c, [kind |-> "output", body |-> JobBlock(background_jobs[call[c].job_id])])
          /\ background_jobs' = Del(call[c].job_id)
     ELSE /\ Return(c, StartFailed)
          /\ background_jobs' = background_jobs
  /\ resp' = NoResp
  /\ UNCHANGED <<unit, cancelReq, proc, cancels, signals>>
  /\ UNCHANGED ivars

\* The window expired: the handle is returned.
IdFastPathTimeout(c) ==
  /\ call[c].pc = "fastpath" /\ unit[c].pc \in {"spawn", "read"}
  /\ Return(c, [kind |-> "handle",
                body |-> [job_id |-> call[c].job_id, command |-> call[c].cmd,
                          status |-> "running", timeout |-> call[c].timeout]])
  /\ resp' = NoResp
  /\ UNCHANGED <<background_jobs, unit, cancelReq, proc, cancels, signals>>
  /\ UNCHANGED ivars

IdNext ==
  \/ \E c \in Calls, job_id \in JobIdTokens, cmd \in IdCommands : IdSubmit(c, job_id, cmd)
  \/ \E c \in Calls : IdSpawned(c)
  \/ \E c \in Calls : IdCompleted(c)
  \/ \E c \in Calls : IdFastPathDone(c)
  \/ \E c \in Calls : IdFastPathTimeout(c)
  \/ \E job_id \in JobIdTokens : get_job_status(job_id)

IdSpec == Init /\ [][IdNext]_vars

\* ------------------------------ interactsh._parse_payloads_from_output
\* The shortest subdomain the pattern accepts: [a-zA-Z0-9]{20,}.
MinSubdomain == 20

\* Characters of a banner: the class [a-zA-Z0-9], the class [0-9;] of the ANSI
\* pattern, white space (WS), and the punctuation . : / [ ,
ALNUM == {"a", "b", "f", "h", "i", "m", "n", "o", "p", "r", "s", "t", "u", "x", "0"}
ANSI_ARGS == {"0", ";"}

Rep(ch, n) == [i \in 1..n |-> ch]
OAST_PRO == <<"o", "a", "s", "t", ".", "p", "r", "o">>
OAST_FUN == <<"o", "a", "s", "t", ".", "f", "u", "n">>
HTTP == <<"h", "t", "t", "p", ":", "/", "/">>
HTTPS == <<"h", "t", "t", "p", "s", ":", "/", "/">>

\* The pieces a banner is made of: a 20 and a 19 character subdomain of
\* oast.pro, a 20 character subdomain of oast.fun, a URL scheme, a host, an
\* ANSI colour code, a blank.
Pieces ==
  { Rep("a", MinSubdomain) \o <<".">> \o OAST_PRO,
    Rep("a", MinSubdomain - 1) \o <<".">> \o OAST_PRO,
    Rep("b", MinSubdomain) \o <<".">> \o OAST_FUN,
    HTTP, <<"x", ".", "i", "o">>, <<"[", "0", "m">>, <<" ">> }

\* What os.read returns from the pty: up to three pieces.
Banners ==
  {<<>>} \cup Pieces \cup {p \o q : p \in Pieces, q \in Pieces}
         \cup {p \o q \o r : p \in Pieces, q \in Pieces, r \in Pieces}

\* The server setting: one server, two separated by a comma, one with protocol.
Servers == {OAST_PRO, OAST_PRO \o <<",", " ">> \o OAST_FUN, HTTPS \o OAST_PRO}

Least(S) == CHOOSE x \in S : \A y \in S : x <= y

\* text[i..] begins with lit
StartsWith(text, i, lit) ==
  /\ i + Len(lit) - 1 <= Len(text)
  /\ SubSeq(text, i, i + Len(lit) - 1) = lit

\* The first index from i on whose character is not in class (Len + 1 if none):
\* where a greedy class* stops.
RunEnd(text, i, class) ==
  Least({k \in i..(Len(text) + 1) : k > Len(text) \/ text[k] \notin class})

\* re.sub(r'\[[0-9;]*m', '', output)
\* The end of the match of \[[0-9;]*m at i, 0 for no match.
AnsiMatch(text, i) ==
  LET e == RunEnd(text, i + 1, ANSI_ARGS) IN
  IF text[i] = "[" /\ e <= Len(text) /\ text[e] = "m" THEN e ELSE 0

RECURSIVE CleanAnsi(_, _)
CleanAnsi(text, i) ==
  LET starts == {k \in i..Len(text) : AnsiMatch(text, k) > 0} IN
  IF starts = {} THEN SubSeq(text, i, Len(text))
  ELSE SubSeq(text, i, Least(starts) - 1)
         \o CleanAnsi(text, AnsiMatch(text, Least(starts)) + 1)

\* server.split(',')
RECURSIVE Split(_, _)
Split(text, cur) ==
  IF text = <<>> THEN <<cur>>
  ELSE IF Head(text) = "," THEN <<cur>> \o Split(Tail(text), <<>>)
  ELSE Split(Tail(text), Append(cur, Head(text)))

\* re.sub(r'^https?://', '', srv)
CleanServer(srv) ==
  IF StartsWith(srv, 1, HTTPS) THEN SubSeq(srv, Len(HTTPS) + 1, Len(srv))
  ELSE IF StartsWith(srv, 1, HTTP) THEN SubSeq(srv, Len(HTTP) + 1, Len(srv))
  ELSE srv

\* server_list, stripped and cleaned: the domain of each pattern.
Domains(server) ==
  LET server_list == Split(server, <<>>) IN
  [k \in 1..Len(server_list) |-> CleanServer(Strip(server_list[k]))]

\* Mutant of SubdomainMatches: any subdomain, however short.
SubdomainMatchesAny(text, i, e) == e > i

\* [a-zA-Z0-9]{20,} matches text[i..e-1], the run of the class that starts at i.
SubdomainMatches(text, i, e) == e - i >= MinSubdomain

\* The end of the match of [a-zA-Z0-9]{20,}\.domain at i, 0 for no match: '.'
\* is not in the class, so the greedy run is the only candidate.
DomainMatch(text, i, domain) ==
  LET e == RunEnd(text, i, ALNUM) IN
  IF SubdomainMatches(text, i, e) /\ StartsWith(text, e, <<".">> \o domain)
  THEN e + Len(domain) ELSE 0

\* re.findall(pattern, clean_output) from position i: the leftmost matches,
\* not overlapping.
RECURSIVE FindDomains(_, _, _)
FindDomains(text, i, domain) ==
  LET starts == {k \in i..Len(text) : DomainMatch(text, k, domain) > 0} IN
  IF starts = {} THEN <<>>
  ELSE LET b == Least(starts)
           e == DomainMatch(text, b, domain) IN
       <<SubSeq(text, b, e)>> \o FindDomains(text, e + 1, domain)

\* The end of the match of https?://[^\s]+ at i, 0 for no match.
UrlMatch(text, i) ==
  LET scheme == IF StartsWith(text, i, HTTPS) THEN Len(HTTPS)
                ELSE IF StartsWith(text, i, HTTP) THEN Len(HTTP) ELSE 0
      e == RunEnd(text, i + scheme, {text[k] : k \in 1..Len(text)} \ WS) IN
  IF scheme > 0 /\ e > i + scheme THEN e - 1 ELSE 0

\* re.findall(r'https?://[^\s]+', clean_output) from position i
RECURSIVE FindUrls(_, _)
FindUrls(text, i) ==
  LET starts == {k \in i..Len(text) : UrlMatch(text, k) > 0} IN
  IF starts = {} THEN <<>>
  ELSE LET b == Least(starts)
           e == UrlMatch(text, b) IN
       <<SubSeq(text, b, e)>> \o FindUrls(text, e + 1)

\* for pattern in patterns: domains.extend(re.findall(pattern, clean_output))
RECURSIVE AllDomains(_, _)
AllDomains(text, domains) ==
  IF domains = <<>> THEN <<>>
  ELSE FindDomains(text, 1, Head(domains)) \o AllDomains(text, Tail(domains))

\* list(dict.fromkeys(items)): the first occurrence of each item, in order.
RECURSIVE Unique(_)
Unique(items) ==
  IF items = <<>> THEN <<>>
  ELSE LET front == Unique(SubSeq(items, 1, Len(items) - 1))
           last == items[Len(items)] IN
       IF \E k \in 1..Len(front) : front[k] = last THEN front
       ELSE Append(front, last)

parse_payloads_from_output(output, server) ==
  LET clean_output == CleanAnsi(output, 1) IN
  Unique(AllDomains(clean_output, Domains(server)) \o FindUrls(clean_output, 1))

\* A call of _parse_payloads_from_output: iresp holds the arguments of the
\* call in progress and then its result.
ParseInit ==
  /\ JobsInit
  /\ interactsh_worker = <<>>
  /\ process_table = [own |-> 0, orphan |-> FALSE]
  /\ files = [p \in Paths |-> NoFile]
  /\ interactsh_config = [enabled |-> TRUE]
  /\ clock = 0
  /\ \E output \in Banners, server \in Servers :
       iresp = [op |-> "call", status |-> "none", output |-> output, server |-> server]

ParsePayloads ==
  /\ iresp.op = "call"
  /\ iresp' = [op |-> "_parse_payloads_from_output", status |-> "none",
               output |-> iresp.output, server |-> iresp.server,
               payloads |-> parse_payloads_from_output(iresp.output, iresp.server)]
  /\ UNCHANGED jobvars
  /\ UNCHANGED <<interactsh_worker, process_table, files, interactsh_config, clock>>

ParseSpec == ParseInit /\ [][ParsePayloads]_vars

\* ------------------------------------------------------------ specification
\* Every step but the arrival of a new run_kali_command.
Engine ==
  \/ \E c \in Calls : RunSpawned(c)
  \/ \E c \in Calls : RunReadDone(c)
  \/ \E c \in Calls : RunWaitDone(c)
  \/ \E c \in Calls : RunTimeout(c)
  \/ \E c \in Calls : RunCleanupKill(c)
  \/ \E c \in Calls : RunCleanupDone(c)
  \/ \E j \in Calls : BgSpawned(j)
  \/ \E j \in Calls : BgReadDone(j)
  \/ \E j \in Calls : BgWaitDone(j)
  \/ \E j \in Calls : BgTimeout(j)
  \/ \E j \in Calls : BgCleanupKill(j)
  \/ \E j \in Calls : BgCleanupDone(j)
  \/ \E j \in Calls : BgCancelled(j)
  \/ \E c \in Calls : FastPathDone(c)
  \/ \E c \in Calls : FastPathCancelled(c)
  \/ \E c \in Calls : FastPathTimeout(c)
  \/ \E j \in JobIds : get_job_status(j)
  \/ list_background_jobs
  \/ \E j \in JobIds : cancel_job(j)
  \/ \E j \in Calls : CancelTermDone(j)
  \/ \E j \in Calls : CancelTermTimeout(j)
  \/ \E j \in Calls : CancelKillDone(j)
  \/ \E c \in Calls : ProcExit(c)
  \/ \E c \in Calls : ChildExit(c)
  \/ \E c \in Calls : ClosePipes(c)

Next ==
  \/ \E c \in Calls, cmd \in Commands, t \in Timeouts, cwd \in Cwds : Submit(c, cmd, t, cwd)
  \/ Engine

Spec == Init /\ [][Next]_vars

\* A single invocation, its inputs drawn from the wide domains.
WideNext ==
  \/ \E cmd \in WideCommands, t \in WideTimeouts, cwd \in Cwds : Submit(1, cmd, t, cwd)
  \/ Engine

WideSpec == Init /\ [][WideNext]_vars

\* The code's own steps for invocation c: coroutine segments the event loop
\* runs once their await is resolved, and the timers it fires.
CodeStep(c) ==
  \/ RunSpawned(c) \/ RunReadDone(c) \/ RunWaitDone(c)
  \/ RunTimeout(c) \/ RunCleanupKill(c) \/ RunCleanupDone(c)
  \/ BgSpawned(c) \/ BgReadDone(c) \/ BgWaitDone(c)
  \/ BgTimeout(c) \/ BgCleanupKill(c) \/ BgCleanupDone(c) \/ BgCancelled(c)
  \/ FastPathDone(c) \/ FastPathCancelled(c) \/ FastPathTimeout(c)
  \/ CancelTermDone(c) \/ CancelTermTimeout(c) \/ CancelKillDone(c)

\* The event loop keeps running ready coroutines and due timers; the processes
\* and the callers are under no obligation.
FairSpec == Spec /\ \A c \in Calls : WF_vars(CodeStep(c))

\* ------------------------------------------------------------------ claims
Blank(cmd) == \A i \in 1..Len(cmd) : cmd[i] \in WS

\* A cancel_job on j has been accepted (its task.cancel() was issued).
CancelSeen(j) ==
  \/ cancelReq[j] \/ unit[j].pc = "cancelled"
  \/ signals[j].term > 0 \/ signals[j].acks > 0

\* C1: a run_kali_command with a non-empty command and timeout <= 60 never
\* creates a Job entry: none of its steps changes the job store, and its id is
\* never a key of it, whatever the outcome of the command.
C1_SyncCreatesNoJob ==
  [][\A c \in Calls :
       ( /\ call'[c].pc # "idle" /\ call'[c].timeout <= 60 /\ ~Blank(call'[c].cmd)
         /\ (call'[c] # call[c] \/ unit'[c] # unit[c] \/ ret'[c].kind # ret[c].kind) )
       => (background_jobs' = background_jobs /\ c \notin Stored')]_vars

\* C1 witness: a synchronous call (timeout 60) that ended in a timeout.
C1_Witness ==
  \E c \in Calls :
    /\ call[c].pc = "returned" /\ call[c].timeout = 60 /\ ret[c].kind = "output"
    /\ ret[c].body.stderr = TIMEOUT_MSG /\ ret[c].body.rc = Some(-1)
    /\ c \notin Stored

\* C2 (the claim as stated): a background call whose unit reached a terminal
\* state within the fast-path window returned the output block, and its job id
\* is absent from the store, in every interleaving with other callers.
C2_FastPathReturnsOutput ==
  \A c \in Calls :
    (call[c].mode = "job" /\ call[c].pc \in {"returned", "raised"}
       /\ ret[c].kind # "handle")
    => (ret[c].kind = "output" /\ c \notin Stored)

\* C3 (the claim as stated): when the fast-path window expires while the
\* command is still running, run_kali_command returns the handle (job_id,
\* command, status "running", timeout) and at that moment the id is a key of
\* the store whose entry has status 'running', so list_background_jobs
\* reports it as running.
C3_HandleJobIsRunning ==
  [][\A c \in Calls :
       ( /\ call[c].pc = "fastpath" /\ call'[c].pc = "returned"
         /\ ret'[c].kind = "handle"
         /\ proc[c].leader = "alive" )
       => /\ ret'[c].body = [job_id |-> c, command |-> call[c].cmd,
                             status |-> "running", timeout |-> call[c].timeout]
          /\ c \in Stored'
          /\ background_jobs'[c].status = "running"
          /\ [job_id |-> c, status |-> "running", timeout |-> call[c].timeout,
              command |-> Preview(call[c].cmd)]
               \in {JobInfo(j)' : j \in Stored'}]_vars

\* C4: read-and-reap.  A get_job_status on a stored terminal job returns its
\* output block and removes it; on an absent id it returns 'not found' and
\* changes nothing; an id once removed is never a key again, so every later
\* query is 'not found' and the output (by a status query or by the fast
\* path) is delivered at most once.
C4_ReadAndReap ==
  [][\A j \in Calls :
       /\ (resp'.op = "get_job_status" /\ resp'.job_id = j)
            => IF j \notin Stored
               THEN resp'.kind = "not_found" /\ background_jobs' = background_jobs
               ELSE IF background_jobs[j].status \in TERMINAL
               THEN /\ resp'.kind = "output"
                    /\ resp'.body = JobBlock(background_jobs[j])
                    /\ j \notin Stored'
               ELSE resp'.kind = "running"
       /\ (call[j].pc # "idle" /\ j \notin Stored) => j \notin Stored'
       /\ (ret'[j].kind = "output" /\ ret[j].kind = "none" /\ call[j].mode = "job")
            => (j \in Stored /\ j \notin Stored')]_vars

\* C4 witness: a status query has just delivered the output of a job that
\* ended in a timeout, and the job is gone.
C4_Witness ==
  \E j \in Calls :
    /\ resp.op = "get_job_status" /\ resp.job_id = j /\ resp.kind = "output"
    /\ resp.body.stderr = TIMEOUT_MSG
    /\ j \notin Stored /\ call[j].mode = "job"

\* C5: cancel_job answers NotFound exactly when the id is absent and Conflict
\* exactly when the job is stored with a terminal status, and in both cases
\* nothing but the response changes: no task cancelled, no signal sent, the
\* job record and the store as they were.
C5_CancelRejected ==
  [][\A j \in Calls :
       cancel_job(j)
       => /\ (resp'.kind = "not_found") <=> (j \notin Stored)
          /\ (resp'.kind = "conflict")
               <=> (j \in Stored /\ background_jobs[j].status \in TERMINAL)
          /\ (resp'.kind \in {"not_found", "conflict"})
               => UNCHANGED <<background_jobs, call, ret, unit, cancelReq,
                              proc, cancels, signals>>]_vars

\* C5 witness: a cancel_job was refused with Conflict on a job recorded as timeout.
C5_Witness ==
  \E j \in Calls :
    /\ resp.op = "cancel_job" /\ resp.job_id = j /\ resp.kind = "conflict"
    /\ j \in Stored /\ background_jobs[j].status = "timeout"
    /\ ~cancelReq[j] /\ signals[j].term = 0

\* C6 (the claim as stated): a command that exceeded its timeout ends with
\* status 'timeout' and return code -1 (synchronous: the timeout tuple), and
\* once that is recorded no process of its group is alive; in every
\* interleaving, a cancel_job during the timeout cleanup included.
C6_TimeoutEndsClean ==
  [][\A c \in Calls :
       /\ ( /\ call[c].mode = "job"
            /\ unit[c].pc \in {"cleanup_term", "cleanup_kill"}
            /\ unit'[c].pc \notin AWAITING )
          => /\ c \in Stored'
             /\ background_jobs'[c].status = "timeout"
             /\ background_jobs'[c].return_code = Some(-1)
       /\ ( /\ c \in Stored /\ c \in Stored'
            /\ background_jobs[c].status = "running"
            /\ background_jobs'[c].status = "timeout" )
          => ~GroupAlive(proc'[c])
       /\ ( /\ call[c].mode = "sync"
            /\ unit[c].pc \in {"read", "cleanup_term", "cleanup_kill"}
            /\ ret'[c] = SyncTimeoutResult /\ ret[c].kind = "none" )
          => ~GroupAlive(proc'[c])]_vars

\* C7 (the claim as stated): after a handle was returned for job j and a
\* cancel_job(j) answered 'cancelled', the get_job_status(j) that immediately
\* follows answers NotFound.
C7_CancelThenNotFound ==
  [][\A j \in Calls :
       ( /\ ret[j].kind = "handle"
         /\ resp = Ack(j)
         /\ resp'.op = "get_job_status" /\ resp'.job_id = j )
       => resp'.kind = "not_found"]_vars

\* C7 (amended): a successful cancel_job leaves the job in the store with
\* status 'cancelled' (unless a status query has reaped it meanwhile); the
\* get_job_status that immediately follows returns the job's output block
\* with return code None and removes the job (NotFound only if it was already
\* reaped), and the get_job_status right after that one answers NotFound.
C7_CancelThenOutputThenNotFound ==
  [][\A j \in Calls :
       /\ (resp' = Ack(j) /\ resp # Ack(j) /\ j \in Stored)
            => (j \in Stored' /\ background_jobs'[j].status = "cancelled")
       /\ ( /\ ret[j].kind = "handle" /\ resp = Ack(j)
            /\ resp'.op = "get_job_status" /\ resp'.job_id = j )
            => IF j \in Stored
               THEN /\ resp'.kind = "output"
                    /\ resp'.body.rc = None
                    /\ resp'.body.stdout = EMPTY
                    /\ j \notin Stored'
               ELSE resp'.kind = "not_found"
       /\ ( /\ resp.op = "get_job_status" /\ resp.job_id = j /\ resp.kind = "output"
            /\ resp'.op = "get_job_status" /\ resp'.job_id = j )
            => resp'.kind = "not_found"]_vars

\* C7 witness: after the handle and the cancellation, a status query has just
\* delivered the cancelled job's block.
C7_Witness ==
  \E j \in Calls :
    /\ ret[j].kind = "handle" /\ signals[j].acks > 0
    /\ resp.op = "get_job_status" /\ resp.job_id = j /\ resp.kind = "output"
    /\ resp.body.stderr = CANCEL_MSG /\ resp.body.rc = None
    /\ j \notin Stored

\* C8: an empty or whitespace-only command is rejected for every timeout with
\* the "Command cannot be empty" error before anything is spawned: no process,
\* no task, no Job, the store unchanged.
C8_EmptyCommandRejected ==
  [][\A c \in Calls :
       (call[c].pc = "idle" /\ call'[c].pc # "idle" /\ Blank(call'[c].cmd))
       => /\ call'[c].pc = "returned"
          /\ ret'[c].kind = "invalid"
          /\ UNCHANGED <<background_jobs, proc, unit, cancelReq>>
          /\ proc[c].leader = "none" /\ unit[c].pc = "none"]_vars

\* C8 witness: a whitespace-only command with a background timeout was rejected.
C8_Witness ==
  \E c \in Calls :
    /\ call[c].pc = "returned" /\ ret[c].kind = "invalid"
    /\ call[c].cmd = <<" ">> /\ call[c].timeout > 60
    /\ proc[c].leader = "none" /\ c \notin Stored

\* C9 (the claim as stated): when cancel_job acknowledges success, the job's
\* process group has received SIGTERM, the job (while stored) is 'cancelled'
\* with end_time set, and no process of the job is alive; at every point at
\* which cancel_job can be called.
C9_AckMeansKilled ==
  \A j \in Calls :
    (resp = Ack(j))
    => /\ signals[j].term > 0
       /\ ~GroupAlive(proc[j])
       /\ j \in Stored => ( /\ background_jobs[j].status = "cancelled"
                            /\ background_jobs[j].end_time > 0 )

\* C10 (the claim as stated): after the window expired and the handle was
\* returned, the job, absent a cancel_job, later reaches completed, timeout or
\* error with its output recorded (to be delivered by get_job_status).
C10_HandleJobFinishes ==
  \A j \in Calls :
    [](ret[j].kind = "handle"
         => <>( \/ CancelSeen(j)
                \/ j \notin Stored
                \/ background_jobs[j].status \in {"completed", "timeout", "error"} ))

\* C11 (the claim as stated): for the same outcome, the block the fast path
\* returns is the block the synchronous route returns: for a command that
\* exited, the one run_command's tuple for those data and that exit code is
\* formatted to; for a spawn failure, the one of run_command's failure tuple.
C11_FastPathEqualsSync ==
  [][\A c \in Calls :
       ( /\ call[c].pc = "fastpath" /\ call'[c].pc = "returned"
         /\ ret'[c].kind = "output" /\ c \in Stored
         /\ background_jobs[c].status \in {"completed", "error"} )
       => LET job == background_jobs[c] IN
          ret'[c] = IF job.status = "completed"
                    THEN SyncResult(Strip(job.stdout), Strip(job.stderr),
                                    job.return_code[1])
                    ELSE SyncResult(<<>>, SYNC_ERROR_MSG, -1)]_vars

\* C12 (the claim as stated): no call ever raises to its caller: every
\* run_kali_command ends with a returned value and every get_job_status,
\* list_background_jobs and cancel_job with a response, in any interleaving.
C12_NeverRaises ==
  /\ \A c \in Calls : call[c].pc # "raised" /\ ret[c].kind # "raised"
  /\ resp.kind # "raised"

C14_WaitCapped ==
  \A c \in Calls :
    (unit[c].pc = "read")
    => /\ unit[c].timer <= MAX_TIMEOUT
       /\ unit[c].timer <= call[c].timeout

\* C15 (the claim as stated): list_background_jobs returns one entry per
\* stored job, total_count is their number, and every command preview is at
\* most 50 characters long.
C15_PreviewAtMost50 ==
  [][(resp'.op = "list_background_jobs")
       => /\ {e.job_id : e \in resp'.jobs} = Stored
          /\ Cardinality(resp'.jobs) = Cardinality(Stored)
          /\ resp'.total_count = Cardinality(Stored)
          /\ \A e \in resp'.jobs : Len(e.command) <= 50]_vars

\* C15 (amended): one entry per stored job and total_count their number; the
\* preview is the command itself when it has at most 50 characters, and
\* otherwise its first 50 characters followed by "...", 53 characters.
C15_PreviewAtMost53 ==
  [][(resp'.op = "list_background_jobs")
       => /\ {e.job_id : e \in resp'.jobs} = Stored
          /\ Cardinality(resp'.jobs) = Cardinality(Stored)
          /\ resp'.total_count = Cardinality(Stored)
          /\ \A e \in resp'.jobs :
               LET command == background_jobs[e.job_id].command IN
               /\ e.status = background_jobs[e.job_id].status
               /\ Len(command) <= 50 => e.command = command
               /\ Len(command) > 50 =>
                    /\ Len(e.command) = 53
                    /\ SubSeq(e.command, 1, 50) = SubSeq(command, 1, 50)
                    /\ SubSeq(e.command, 51, 53) = <<".", ".", ".">>]_vars

\* C15 witness: a listing that holds the 53-character preview of a longer command.
C15_Witness ==
  /\ resp.op = "list_background_jobs"
  /\ \E e \in resp.jobs : Len(e.command) = 53 /\ e.job_id \in Stored

\* C16: a start_interactsh while the recorded status is 'running' returns the
\* Conflict error, spawns no process and leaves the worker record, the
\* processes and the files as they were; a start succeeds only from a record
\* that is absent or 'stopped' (a stop or a downgrade lies between two
\* successful starts); at most one listener spawned by start is alive.
C16_SingleListener ==
  [][/\ (Running /\ iresp'.op = "start_interactsh")
          => /\ iresp'.status = "error"
             /\ iresp'.error = "Interactsh worker is already running"
             /\ UNCHANGED <<interactsh_worker, process_table, files>>
     /\ (iresp'.op = "start_interactsh" /\ iresp'.status = "running")
          => /\ ~Running
             /\ interactsh_worker'[1].status = "running"
             /\ interactsh_worker'[1].start_time = clock'
     /\ process_table'.own <= 1]_vars

\* C16 witness: a start was refused as already running, the listener alive.
C16_Witness ==
  /\ iresp.op = "start_interactsh" /\ iresp.status = "error"
  /\ iresp.error = "Interactsh worker is already running"
  /\ Running /\ process_table.own = 1

\* C17: a failed start_interactsh leaves the listener not running: disabled
\* in configuration, nothing is spawned and the record is unchanged; no
\* payloads in the banner, the spawned process is killed, an error is
\* returned and the record is not set to 'running'.
C17_FailedStart ==
  [][(iresp'.op = "start_interactsh")
       => /\ (~Running /\ ~interactsh_config.enabled)
               => /\ iresp'.status = "error"
                  /\ UNCHANGED <<interactsh_worker, process_table, files>>
          /\ (iresp'.status = "error")
               => /\ interactsh_worker' = interactsh_worker
                  /\ process_table'.own <= process_table.own
          /\ (iresp'.status = "error" /\ ~Running) => ~Running'
          /\ (iresp'.status = "error"
                /\ iresp'.error = "Failed to generate interactsh payloads")
               => process_table'.own = 0]_vars

\* C17 witness: a start found no payloads after a stopped worker; the record
\* is still the stopped one and no listener is alive.
C17_Witness ==
  /\ iresp.op = "start_interactsh" /\ iresp.status = "error"
  /\ iresp.error = "Failed to generate interactsh payloads"
  /\ interactsh_worker # None /\ Worker.status = "stopped"
  /\ process_table.own = 0

\* C18: stop_interactsh returns an error, the record unchanged and nothing
\* killed, when there is no worker or its status is not 'running'; otherwise
\* every process matching the name is killed and the status becomes
\* 'stopped', after which a second stop is an error and a start is not
\* refused as already running.
C18_Stop ==
  [][/\ (iresp'.op = "stop_interactsh")
          => IF Running
             THEN /\ iresp'.status = "stopped"
                  /\ process_table' = [own |-> 0, orphan |-> FALSE]
                  /\ interactsh_worker' = Some([Worker EXCEPT !.status = "stopped"])
             ELSE /\ iresp'.status = "error"
                  /\ UNCHANGED <<interactsh_worker, process_table, files>>
     /\ (iresp.op = "stop_interactsh" /\ iresp.status = "stopped")
          => /\ (iresp'.op = "stop_interactsh") => iresp'.status = "error"
             /\ (iresp'.op = "start_interactsh" /\ iresp'.status = "error")
                  => iresp'.error # "Interactsh worker is already running"]_vars

\* C18 witness: a stop has killed the listener and recorded 'stopped'.
C18_Witness ==
  /\ iresp.op = "stop_interactsh" /\ iresp.status = "stopped"
  /\ interactsh_worker # None /\ Worker.status = "stopped"
  /\ ~is_running

\* C19: get_interactsh_status reports 'running' only if a process matching
\* the listener is in the process table; a record 'running' with the process
\* gone is reported and recorded as 'stopped'; with the process alive the
\* record is unchanged; a status call never makes a record 'running'.
C19_Status ==
  [][(iresp'.op = "get_interactsh_status")
       => /\ (iresp'.status = "running") => (is_running /\ Running)
          /\ (Running /\ ~is_running)
               => /\ iresp'.status = "stopped"
                  /\ interactsh_worker' = Some([Worker EXCEPT !.status = "stopped"])
          /\ is_running => interactsh_worker' = interactsh_worker
          /\ ~Running => (~Running' /\ iresp'.status = "stopped")
          /\ UNCHANGED <<process_table, files>>]_vars

\* C19 witness: a status call reported 'stopped' for a started worker whose
\* process is gone, and the record says 'stopped'.
C19_Witness ==
  /\ iresp.op = "get_interactsh_status" /\ iresp.status = "stopped"
  /\ interactsh_worker # None /\ Worker.status = "stopped"
  /\ iresp.message = "Worker has stopped"

\* A line of the file that is, by itself, one valid JSON value.
ValidLine(line) == Len(Strip(line)) = 1 /\ Strip(line)[1] \in Values

\* The non-blank lines of a file, in file order.
TextLines(file) ==
  SelectSeq(file.lines, LAMBDA line : \E k \in 1..Len(line) : line[k] \notin WS)

\* C20 (the claim as stated): while the worker is running poll_interactsh
\* never fails; a missing file, or a file with an unparsable line, gives a
\* success with zero interactions; a file whose non-blank lines are all valid
\* JSON gives one interaction per non-blank line in file order; poll changes
\* neither the file nor the worker record.
C20_PollNeverFails ==
  [][(Running /\ iresp'.op = "poll_interactsh")
       => LET file == files[Worker.output_file] IN
          /\ iresp'.status = "success"
          /\ UNCHANGED <<files, interactsh_worker>>
          /\ (~file.exists \/ \E i \in 1..Len(TextLines(file)) : ~ValidLine(TextLines(file)[i]))
               => iresp'.interactions = <<>>
          /\ (file.exists /\ \A i \in 1..Len(TextLines(file)) : ValidLine(TextLines(file)[i]))
               => iresp'.interactions
                    = [i \in 1..Len(TextLines(file)) |-> Strip(TextLines(file)[i])[1]]]_vars

\* item is a run of at least 20 alphanumeric characters, a '.', and one of the
\* configured domains.
IsIdentifier(item, server) ==
  \E k \in 1..Len(Domains(server)) :
    LET domain == Domains(server)[k]
        n == Len(item) - Len(domain) - 1 IN
    /\ n >= 20
    /\ SubSeq(item, n + 1, Len(item)) = <<".">> \o domain
    /\ \A i \in 1..n : item[i] \in ALNUM

\* item is a URL: http:// or https:// and at least one more character, none
\* of them white space.
IsUrl(item) ==
  /\ \/ StartsWith(item, 1, HTTP) /\ Len(item) > Len(HTTP)
     \/ StartsWith(item, 1, HTTPS) /\ Len(item) > Len(HTTPS)
  /\ \A i \in 1..Len(item) : item[i] \notin WS

NoDuplicates(items) ==
  \A i \in 1..Len(items), k \in 1..Len(items) : items[i] = items[k] => i = k

Parsed == iresp.op = "_parse_payloads_from_output"

\* C21 (the claim as stated): every item _parse_payloads_from_output returns is
\* a run of at least 20 alphanumeric characters followed by '.' and a
\* configured domain, and the result has no duplicates.
C21_OnlyIdentifiers ==
  Parsed =>
    /\ \A i \in 1..Len(iresp.payloads) : IsIdentifier(iresp.payloads[i], iresp.server)
    /\ NoDuplicates(iresp.payloads)

\* C21 (amended): every item _parse_payloads_from_output returns is either a
\* run of at least 20 alphanumeric characters followed by '.' and a configured
\* domain, or a URL found in the banner; the identifiers come before the URLs;
\* the result has no duplicates.
C21_IdentifiersAndUrls ==
  Parsed =>
    /\ \A i \in 1..Len(iresp.payloads) :
         \/ IsIdentifier(iresp.payloads[i], iresp.server)
         \/ IsUrl(iresp.payloads[i])
    /\ \A i \in 1..Len(iresp.payloads), k \in 1..Len(iresp.payloads) :
         (IsIdentifier(iresp.payloads[i], iresp.server)
            /\ ~IsIdentifier(iresp.payloads[k], iresp.server)) => i < k
    /\ NoDuplicates(iresp.payloads)

\* C21 witness: a banner with a 20 character subdomain, a 19 character one and
\* a URL gave the first and the URL.
C21_Witness ==
  /\ Parsed
  /\ Len(iresp.payloads) = 2
  /\ IsIdentifier(iresp.payloads[1], iresp.server)
  /\ IsUrl(iresp.payloads[2])
  /\ \E i \in 1..Len(iresp.output) :
       StartsWith(iresp.output, i, Rep("a", MinSubdomain - 1) \o <<".">> \o OAST_PRO)

\* C22 (the claim as stated): in every reachable state, every job in the store
\* has a process handle if and only if its status is 'running'.
C22_HandleIffRunning ==
  \A j \in Stored :
    background_jobs[j].process <=> background_jobs[j].status = "running"

\* C23 (the claim as stated): a job's status changes only from 'running' to a
\* terminal status, and once it is terminal no step of the unit or of
\* cancel_job changes its status or its end_time.
C23_TerminalWrittenOnce ==
  [][\A j \in Stored \cap Stored' :
       /\ (background_jobs'[j].status # background_jobs[j].status)
            => /\ background_jobs[j].status = "running"
               /\ background_jobs'[j].status \in TERMINAL
       /\ (background_jobs[j].status \in TERMINAL)
            => /\ background_jobs'[j].status = background_jobs[j].status
               /\ background_jobs'[j].end_time = background_jobs[j].end_time]_vars

\* C24: once cancel_job has accepted a running job (its task.cancel() was
\* issued), no step records 'completed', 'timeout' or 'error' for that job: as
\* long as it is stored its status is 'running' or 'cancelled', and the only
\* change of status is to 'cancelled', also when the process exits or the
\* timeout fires while cancel_job waits for the process.
C24_CancelPreempts ==
  [][\A j \in Calls :
       (CancelSeen(j) /\ j \in Stored /\ j \in Stored')
         => /\ background_jobs'[j].status \in {"running", "cancelled"}
            /\ (background_jobs'[j].status # background_jobs[j].status)
                 => background_jobs'[j].status = "cancelled"
            /\ background_jobs'[j].return_code = None
            /\ unit'[j].pc # "done"]_vars

\* C24 witness: the process exited while cancel_job was waiting for it, the
\* reads of the unit had ended, and the unit recorded 'cancelled'.
C24_Witness ==
  \E j \in Stored :
    /\ cancels[j].term > 0
    /\ proc[j].leader = "exited" /\ proc[j].pipes = "closed"
    /\ unit[j].pc = "cancelled"
    /\ background_jobs[j].status = "cancelled"

\* C25 (the claim as stated): every execution terminates, whatever the command
\* does with its pipes: a synchronous run_kali_command that is waiting for its
\* command eventually returns, and every background job that is 'running'
\* eventually leaves that status.
C25_EveryExecutionEnds ==
  \A c \in Calls :
    /\ (call[c].pc = "sync") ~> (call[c].pc = "returned")
    /\ (c \in Stored /\ background_jobs[c].status = "running")
         ~> ~(c \in Stored /\ background_jobs[c].status = "running")

\* Job j has just been recorded as failed.
BecomesError(j) ==
  /\ j \in Stored' /\ background_jobs'[j].status = "error"
  /\ j \in Stored => background_jobs[j].status # "error"

\* The record of a failed job: the exception text in stderr, end_time set, no
\* return code, and the unit has ended without an exception.
ErrorRecorded(j) ==
  /\ background_jobs'[j].stderr = <<"Failed to start command: {e}">>
  /\ background_jobs'[j].end_time > 0
  /\ background_jobs'[j].return_code = None
  /\ unit'[j].pc = "done"

\* Job j, failed, is removed by a status query that shows its output.
ReapedByStatus(j) ==
  /\ resp'.op = "get_job_status" /\ resp'.job_id = j /\ resp'.kind = "output"
  /\ resp'.body.stderr = <<"Failed to start command: {e}">>

\* C26 (the claim as stated): an exception in the background unit is recorded
\* as status 'error' with the exception text in stderr and end_time set, the
\* task ending without an exception, and the job then stays in the store,
\* unchanged, until a status query reaps it.
C26_ErrorStaysUntilQuery ==
  [][\A j \in Calls :
       /\ BecomesError(j) => ErrorRecorded(j)
       /\ (j \in Stored /\ background_jobs[j].status = "error")
            => IF j \in Stored' THEN background_jobs'[j] = background_jobs[j]
               ELSE ReapedByStatus(j)]_vars

\* C26 (amended): ... and the job then stays in the store, unchanged, until a
\* status query reaps it or the fast path of the run_kali_command that created
\* it returns its output and deletes it.
C26_ErrorStaysUntilReturned ==
  [][\A j \in Calls :
       /\ BecomesError(j) => ErrorRecorded(j)
       /\ (j \in Stored /\ background_jobs[j].status = "error")
            => IF j \in Stored' THEN background_jobs'[j] = background_jobs[j]
               ELSE \/ ReapedByStatus(j)
                    \/ /\ call[j].pc = "fastpath" /\ call'[j].pc = "returned"
                       /\ ret'[j].kind = "output"
                       /\ ret'[j].body.stderr = <<"Failed to start command: {e}">>
                       /\ ret'[j].body.rc = None]_vars

\* C26 witness: the spawn of a background job failed, the unit ended, and a
\* status query showed the failure and removed the job.
C26_Witness ==
  \E j \in Calls :
    /\ call[j].mode = "job" /\ unit[j].pc = "done"
    /\ resp.op = "get_job_status" /\ resp.job_id = j /\ resp.kind = "output"
    /\ resp.body.stderr = <<"Failed to start command: {e}">>
    /\ j \notin Stored

\* C27 (the claim as stated): the id generated for a new job is not a key of
\* the store, so that storing the job replaces no stored record, and a unit
\* writes only to the record of the job it was started for: the output in a
\* record is the output of the record's own command.
C27_JobIdsUnique ==
  [][/\ \A c \in Calls :
          (call[c].pc = "idle" /\ call'[c].pc = "fastpath")
            => call'[c].job_id \notin Stored
     /\ \A id \in Stored \cap Stored' :
          background_jobs'[id].command = background_jobs[id].command
     /\ \A id \in Stored' :
          background_jobs'[id].status = "completed"
            => background_jobs'[id].stdout = background_jobs'[id].command]_vars

\* C28 (the claim as stated): every job in the store whose status is not
\* 'running' has end_time set and every 'running' job has none; return_code is
\* an exit code of the process exactly when the status is 'completed', is -1
\* exactly when the status is 'timeout', and is absent for 'running',
\* 'cancelled' and 'error'.
C28_TerminalRecords ==
  \A j \in Stored :
    LET job == background_jobs[j] IN
    /\ (job.status = "running") <=> (job.end_time = 0)
    /\ (job.status = "completed")
         <=> (job.return_code # None /\ job.return_code[1] >= 0)
    /\ (job.status = "timeout") <=> (job.return_code = Some(-1))
    /\ (job.status \in {"running", "cancelled", "error"}) <=> (job.return_code = None)

\* C28 (amended): every job in the store whose status is not 'running' has
\* end_time set and every 'running' job has none; return_code is present
\* exactly when the status is 'completed' or 'timeout'; it is -1 whenever the
\* status is 'timeout', and for 'completed' it is what process.wait() returned,
\* which is -1 for a shell killed by signal 1.
C28_TerminalRecordsSignals ==
  \A j \in Stored :
    LET job == background_jobs[j] IN
    /\ job.status \in {"running", "completed", "cancelled", "timeout", "error"}
    /\ (job.status = "running") <=> (job.end_time = 0)
    /\ (job.status \in {"completed", "timeout"}) <=> (job.return_code # None)
    /\ (job.status = "timeout") => (job.return_code = Some(-1))
    /\ (job.status = "completed") => (job.return_code[1] \in {0, 1, -1})

\* C28 witness: the store holds a completed job whose shell was killed by
\* signal 1: return code -1, end_time set.
C28_Witness ==
  \E j \in Stored :
    /\ background_jobs[j].status = "completed"
    /\ background_jobs[j].return_code = Some(-1)
    /\ background_jobs[j].end_time > 0

\* C29 (the claim as stated): a job is removed from the store only when its
\* unit has finished and no process of the job is alive, and the unit never
\* accesses background_jobs[job_id] after the job has been removed.
C29_RemovedAfterExecution ==
  [][\A j \in Calls :
       /\ (j \in Stored /\ j \notin Stored')
            => /\ unit[j].pc \notin AWAITING
               /\ ~GroupAlive(proc[j])
       /\ unit'[j].pc # "failed"]_vars

\* C30 (the claim as stated): when cancel_job returns "Failed to cancel job"
\* the job is still 'running' and its unit is not cancelled, and no later step
\* records 'cancelled' for it without a cancel_job that acknowledges.
C30_CancelAllOrNothing ==
  [][\A j \in Calls :
       /\ (resp'.op = "cancel_job" /\ resp'.job_id = j /\ resp'.kind = "error")
            => /\ j \in Stored' /\ background_jobs'[j].status = "running"
               /\ ~cancelReq'[j]
       /\ (resp.op = "cancel_job" /\ resp.job_id = j /\ resp.kind = "error"
             /\ j \in Stored /\ j \in Stored'
             /\ background_jobs[j].status = "running"
             /\ background_jobs'[j].status = "cancelled")
            => resp' = [op |-> "cancel_job", job_id |-> j, kind |-> "cancelled"]]_vars

\* C31 (the claim as stated): of the cancel_job calls made on one job, also
\* when a second one starts while the first is waiting for the process to
\* exit, at most one returns the success acknowledgement, and the process
\* group is sent SIGTERM by at most one of them.
C31_OneCancelWins ==
  \A j \in Calls : signals[j].acks <= 1 /\ signals[j].term <= 1

\* C32: list_background_jobs, and get_job_status on a job whose status is
\* 'running', change neither the job store nor any job record, nor the unit,
\* the process or a pending cancellation of any job: the jobs go on as if the
\* query had not been made.
C32_QueriesReadOnly ==
  [][( \/ resp'.op = "list_background_jobs"
       \/ resp'.op = "get_job_status" /\ resp'.kind = "running" )
       => /\ UNCHANGED <<background_jobs, unit, proc, cancelReq, cancels, signals>>
          /\ UNCHANGED <<call, ret>>
          /\ (resp'.op = "get_job_status")
               => /\ resp'.job_id \in Stored
                  /\ background_jobs[resp'.job_id].status = "running"]_vars

\* C32 witness: a status query answered 'running' for a job whose handle had
\* been returned; the job is stored, running, its unit reading the pipes.
C32_Witness ==
  \E j \in Stored :
    /\ resp.op = "get_job_status" /\ resp.job_id = j /\ resp.kind = "running"
    /\ background_jobs[j].status = "running"
    /\ ret[j].kind = "handle"
    /\ unit[j].pc = "read"

====
